---- MODULE Spec2Model ----
(***************************************************************************)
(* Personal finance dashboard (src/finance_dashboard.py).                  *)
(*                                                                         *)
(* Money is counted in integer cents: "50.00" is 5000.  A datetime is the  *)
(* triple <<year, month, day>> (every datetime the program builds is at    *)
(* midnight), ordered as Python orders datetimes.  A Python dict is the    *)
(* sequence of its items in insertion order, keys unique.  A call that     *)
(* raises is the record Raise(exception name); one that returns is Ok(v).  *)
(***************************************************************************)
EXTENDS Integers, Sequences, FiniteSets, TLC

VARIABLES files, transactions, budgets, accounts, loaded, pc, call, result, stdout

vars == <<files, transactions, budgets, accounts, loaded, pc, call, result, stdout>>

\* ------------------------------------------------------------ bounds
MaxTx == 2
MaxBudgets == 3
MaxAccounts == 3
MaxRows == 2

\* ------------------------------------------------------------ results
Ok(v) == [ok |-> TRUE, val |-> v, err |-> ""]

Raise(e) == [ok |-> FALSE, val |-> <<>>, err |-> e]

NoCall == [op |-> "none", args |-> <<>>]

NoResult == Raise("no call")

RECURSIVE SeqSum(_)
SeqSum(s) == IF s = <<>> THEN 0 ELSE s[1] + SeqSum(Tail(s))

RECURSIVE SeqsUpTo(_, _)
SeqsUpTo(S, n) ==
  IF n = 0 THEN {<<>>}
  ELSE LET shorter == SeqsUpTo(S, n - 1)
       IN  shorter \cup {Append(s, x) : s \in {t \in shorter : Len(t) = n - 1}, x \in S}

Range(s) == {s[i] : i \in 1..Len(s)}

\* ------------------------------------------------------------ datetime
MINYEAR == 1
MAXYEAR == 9999

IsLeap(y) == (y % 4 = 0) /\ ((y % 100 # 0) \/ (y % 400 = 0))

DaysInMonth(y, m) ==
  IF m = 2 THEN (IF IsLeap(y) THEN 29 ELSE 28)
  ELSE IF m \in {4, 6, 9, 11} THEN 30 ELSE 31

\* datetime(year, month, day): ValueError unless the fields are in range
datetime(y, m, d) ==
  IF y < MINYEAR \/ y > MAXYEAR THEN Raise("ValueError")
  ELSE IF m < 1 \/ m > 12 THEN Raise("ValueError")
  ELSE IF d < 1 \/ d > DaysInMonth(y, m) THEN Raise("ValueError")
  ELSE Ok(<<y, m, d>>)

\* a <= b on datetimes
DateLE(a, b) ==
  \/ a[1] < b[1]
  \/ a[1] = b[1] /\ a[2] < b[2]
  \/ a[1] = b[1] /\ a[2] = b[2] /\ a[3] <= b[3]

\* ------------------------------------------------------------ domain models
Transaction(date, amount, category, description) ==
  [date |-> date, amount |-> amount, category |-> category, description |-> description]

Budget(category, monthly_limit) ==
  [category |-> category, monthly_limit |-> monthly_limit]

Account(name, balance, account_type) ==
  [name |-> name, balance |-> balance, account_type |-> account_type]

\* ------------------------------------------------------------ dict
DictHas(d, k) == \E i \in 1..Len(d) : d[i].key = k

\* d.get(k, default)
DictGet(d, k, default) ==
  IF DictHas(d, k) THEN d[CHOOSE i \in 1..Len(d) : d[i].key = k].val ELSE default

\* d.setdefault(k, v): an existing key keeps its value
DictSetDefault(d, k, v) ==
  IF DictHas(d, k) THEN d ELSE Append(d, [key |-> k, val |-> v])

\* d[k] = v: an existing key keeps its position, a new key goes last
DictSet(d, k, v) ==
  IF DictHas(d, k)
  THEN [i \in 1..Len(d) |-> IF d[i].key = k THEN [key |-> k, val |-> v] ELSE d[i]]
  ELSE Append(d, [key |-> k, val |-> v])

\* ------------------------------------------------------------ FinanceAnalyzer
\* the range test with its end left out
InRangeEndExclusive(t, start_date, end_date) ==
  DateLE(start_date, t.date) /\ DateLE(t.date, end_date) /\ t.date # end_date

InRange(t, start_date, end_date) == DateLE(start_date, t.date) /\ DateLE(t.date, end_date)

RECURSIVE Accumulate(_, _)
Accumulate(spending, filtered) ==
  IF filtered = <<>> THEN spending
  ELSE LET t == Head(filtered)
       IN  Accumulate(DictSet(spending, t.category, DictGet(spending, t.category, 0) + t.amount),
                      Tail(filtered))

get_spending_by_category(txs, start_date, end_date) ==
  LET filtered == SelectSeq(txs, LAMBDA t : InRange(t, start_date, end_date))
  IN  Accumulate(<<>>, filtered)

\* the entry with the whole limit left, whatever was spent
StatusEntryLimitLeft(budget, spending) ==
  [budget |-> budget.monthly_limit,
   actual |-> DictGet(spending, budget.category, 0),
   remaining |-> budget.monthly_limit]

StatusEntry(budget, spending) ==
  LET actual == DictGet(spending, budget.category, 0)
  IN  [budget |-> budget.monthly_limit,
       actual |-> actual,
       remaining |-> budget.monthly_limit - actual]

\* the status in which the first budget of a category stays
RECURSIVE BuildStatusFirstWins(_, _, _)
BuildStatusFirstWins(status, bs, spending) ==
  IF bs = <<>> THEN status
  ELSE BuildStatusFirstWins(
         DictSetDefault(status, Head(bs).category, StatusEntry(Head(bs), spending)),
         Tail(bs), spending)

RECURSIVE BuildStatus(_, _, _)
BuildStatus(status, bs, spending) ==
  IF bs = <<>> THEN status
  ELSE BuildStatus(DictSet(status, Head(bs).category, StatusEntry(Head(bs), spending)),
                   Tail(bs), spending)

get_budget_status(txs, bs, month, year) ==
  LET start_date == datetime(year, month, 1)
      end_date == IF month < 12 THEN datetime(year, month + 1, 1) ELSE datetime(year + 1, 1, 1)
  IN  IF ~start_date.ok THEN start_date
      ELSE IF ~end_date.ok THEN end_date
      ELSE Ok(BuildStatus(<<>>, bs, get_spending_by_category(txs, start_date.val, end_date.val)))

\* the sum without the balances below zero
get_net_worth_positive(accs) ==
  SeqSum([i \in 1..Len(accs) |-> IF accs[i].balance < 0 THEN 0 ELSE accs[i].balance])

get_net_worth(accs) == SeqSum([i \in 1..Len(accs) |-> accs[i].balance])

\* ------------------------------------------------------------ AlertService
\* the alert text, as the fields it is formatted from
Alert(category, values) ==
  [category |-> category,
   overspend |-> values.actual - values.budget,
   budget |-> values.budget,
   actual |-> values.actual]

\* the alerts with actual = budget counted as an overspend
RECURSIVE CollectAlertsAtLimit(_, _)
CollectAlertsAtLimit(alerts, items) ==
  IF items = <<>> THEN alerts
  ELSE LET it == Head(items)
       IN  CollectAlertsAtLimit(IF it.val.actual >= it.val.budget
                                THEN Append(alerts, Alert(it.key, it.val))
                                ELSE alerts,
                                Tail(items))

RECURSIVE CollectAlerts(_, _)
CollectAlerts(alerts, items) ==
  IF items = <<>> THEN alerts
  ELSE LET it == Head(items)
       IN  CollectAlerts(IF it.val.actual > it.val.budget
                         THEN Append(alerts, Alert(it.key, it.val))
                         ELSE alerts,
                         Tail(items))

check_budget_alerts(txs, bs, month, year) ==
  LET status == get_budget_status(txs, bs, month, year)
  IN  IF ~status.ok THEN status ELSE Ok(CollectAlerts(<<>>, status.val))

\* ------------------------------------------------------------ CSV text
\* A cell of a CSV file: a date text "YYYY-MM-DD" with its three numbers,
\* a decimal text with its value in cents, or any other text.
DateText(y, m, d) == [k |-> "date", s |-> "", n |-> <<y, m, d>>]

DecimalText(cents) == [k |-> "decimal", s |-> "", n |-> <<cents>>]

Text(s) == [k |-> "text", s |-> s, n |-> <<>>]

\* the value csv.DictReader gives a column the row is too short for
None == [k |-> "none", s |-> "", n |-> <<>>]

NoFile == [exists |-> FALSE, header |-> <<>>, rows |-> <<>>]

CsvFile(header, rows) == [exists |-> TRUE, header |-> header, rows |-> rows]

\* csv.DictReader: one dict per data row, keyed by the header's names
DictReader(f) ==
  [r \in 1..Len(f.rows) |->
     [name \in Range(f.header) |->
        LET col == CHOOSE c \in 1..Len(f.header) : f.header[c] = name
        IN  IF col <= Len(f.rows[r]) THEN f.rows[r][col] ELSE None]]

\* datetime.strptime(cell, '%Y-%m-%d')
strptime(cell) ==
  IF cell.k = "none" THEN Raise("TypeError")
  ELSE IF cell.k # "date" THEN Raise("ValueError")
  ELSE datetime(cell.n[1], cell.n[2], cell.n[3])

\* float(cell)
float(cell) ==
  IF cell.k = "none" THEN Raise("TypeError")
  ELSE IF cell.k # "decimal" THEN Raise("ValueError")
  ELSE Ok(cell.n[1])

\* row[name]
Field(row, name) == IF name \in DOMAIN row THEN Ok(row[name]) ELSE Raise("KeyError")

\* the string a text cell holds; a missing cell stays None
StrOf(cell) == IF cell.k = "none" THEN "None" ELSE cell.s

\* ------------------------------------------------------------ CsvDataReader
Warning(filename) == <<"Warning: not found", filename>>

\* the read without the test for the file: open() raises
read_csv_unguarded(dir, filename) ==
  IF ~dir[filename].exists
  THEN [res |-> Raise("FileNotFoundError"), out |-> <<>>]
  ELSE [res |-> Ok(DictReader(dir[filename])), out |-> <<>>]

read_csv(dir, filename) ==
  IF ~dir[filename].exists
  THEN [res |-> Ok(<<>>), out |-> <<Warning(filename)>>]
  ELSE [res |-> Ok(DictReader(dir[filename])), out |-> <<>>]

\* the constructor calls of the loaders: the arguments are evaluated in
\* order and the first one that raises ends the call
MakeTransaction(row) ==
  LET date == strptime(row["date"])
      amountCell == Field(row, "amount")
      amount == float(amountCell.val)
      category == Field(row, "category")
      description == Field(row, "description")
  IN  IF ~date.ok THEN date
      ELSE IF ~amountCell.ok THEN amountCell
      ELSE IF ~amount.ok THEN amount
      ELSE IF ~category.ok THEN category
      ELSE IF ~description.ok THEN description
      ELSE Ok(Transaction(date.val, amount.val, StrOf(category.val), StrOf(description.val)))

MakeBudget(row) ==
  LET limitCell == Field(row, "monthly_limit")
      limit == float(limitCell.val)
  IN  IF ~limitCell.ok THEN limitCell
      ELSE IF ~limit.ok THEN limit
      ELSE Ok(Budget(StrOf(row["category"]), limit.val))

MakeAccount(row) ==
  LET balanceCell == Field(row, "balance")
      balance == float(balanceCell.val)
      account_type == Field(row, "account_type")
  IN  IF ~balanceCell.ok THEN balanceCell
      ELSE IF ~balance.ok THEN balance
      ELSE IF ~account_type.ok THEN account_type
      ELSE Ok(Account(StrOf(row["name"]), balance.val, StrOf(account_type.val)))

\* the object a loader builds from a row, by the loader's key column
MakeRecord(key, row) ==
  IF key = "date" THEN MakeTransaction(row)
  ELSE IF key = "category" THEN MakeBudget(row)
  ELSE MakeAccount(row)

\* the list comprehension of a loader: rows without the key column are
\* left out, the first row whose conversion raises ends the load
RECURSIVE Convert(_, _, _)
Convert(data, key, acc) ==
  IF data = <<>> THEN Ok(acc)
  ELSE IF key \notin DOMAIN Head(data) THEN Convert(Tail(data), key, acc)
  ELSE LET obj == MakeRecord(key, Head(data))
       IN  IF ~obj.ok THEN obj ELSE Convert(Tail(data), key, Append(acc, obj.val))

load_transactions(dir) ==
  LET r == read_csv(dir, "transactions.csv")
  IN  [res |-> IF ~r.res.ok THEN r.res ELSE Convert(r.res.val, "date", <<>>),
       out |-> r.out]

load_budgets(dir) ==
  LET r == read_csv(dir, "budgets.csv")
  IN  [res |-> IF ~r.res.ok THEN r.res ELSE Convert(r.res.val, "category", <<>>),
       out |-> r.out]

load_accounts(dir) ==
  LET r == read_csv(dir, "accounts.csv")
  IN  [res |-> IF ~r.res.ok THEN r.res ELSE Convert(r.res.val, "name", <<>>),
       out |-> r.out]

\* ------------------------------------------------------------ inputs
TxHeader == <<"date", "amount", "category", "description">>

BudgetHeader == <<"category", "monthly_limit">>

AccountHeader == <<"name", "balance", "account_type">>

Directory(tf, bf, af) ==
  [f \in {"transactions.csv", "budgets.csv", "accounts.csv"} |->
     IF f = "transactions.csv" THEN tf ELSE IF f = "budgets.csv" THEN bf ELSE af]

TxDates == {<<2023, 1, 31>>, <<2023, 2, 1>>, <<2023, 12, 31>>, <<2024, 1, 1>>}

Categories == {"Food", "Fun"}

Amounts == {5000, -2000}

Balances == {150050, 500000, -20000}

TxRows ==
  {<<DateText(d[1], d[2], d[3]), DecimalText(a), Text(c), Text("memo")>> :
     d \in TxDates, a \in Amounts, c \in Categories}

AccountRows == {<<Text("Checking"), DecimalText(b), Text("Bank")>> : b \in Balances}

FilesOf(header, rows, n) == {NoFile} \cup {CsvFile(header, r) : r \in SeqsUpTo(rows, n)}

QueryDates == TxDates

Months == {0, 1, 12, 13}

Years == {2023, 9999}

\* ------------------------------------------------------------ state machine
NoSnapshot == [transactions |-> <<>>, budgets |-> <<>>, accounts |-> <<>>]

Snapshot == [transactions |-> transactions, budgets |-> budgets, accounts |-> accounts]

InitWith(dirs) ==
  /\ files \in dirs
  /\ transactions = <<>>
  /\ budgets = <<>>
  /\ accounts = <<>>
  /\ loaded = NoSnapshot
  /\ pc = "reader"
  /\ call = NoCall
  /\ result = NoResult
  /\ stdout = <<>>

\* a direct call of load_transactions()
LoadTransactions ==
  /\ pc = "reader"
  /\ call' = [op |-> "load_transactions", args |-> <<>>]
  /\ result' = load_transactions(files).res
  /\ stdout' = load_transactions(files).out
  /\ UNCHANGED <<files, transactions, budgets, accounts, loaded, pc>>

\* a direct call of load_budgets()
LoadBudgets ==
  /\ pc = "reader"
  /\ call' = [op |-> "load_budgets", args |-> <<>>]
  /\ result' = load_budgets(files).res
  /\ stdout' = load_budgets(files).out
  /\ UNCHANGED <<files, transactions, budgets, accounts, loaded, pc>>

\* a direct call of load_accounts()
LoadAccounts ==
  /\ pc = "reader"
  /\ call' = [op |-> "load_accounts", args |-> <<>>]
  /\ result' = load_accounts(files).res
  /\ stdout' = load_accounts(files).out
  /\ UNCHANGED <<files, transactions, budgets, accounts, loaded, pc>>

\* FinanceAnalyzer(data_reader): the three loads in order; the first one
\* that raises ends the construction and no analyzer exists
FinanceAnalyzerInit ==
  /\ pc = "reader"
  /\ LET t == load_transactions(files)
         b == load_budgets(files)
         a == load_accounts(files)
     IN  /\ call' = [op |-> "FinanceAnalyzer", args |-> <<>>]
         /\ IF ~t.res.ok
            THEN /\ result' = t.res
                 /\ stdout' = t.out
                 /\ pc' = "failed"
                 /\ UNCHANGED <<transactions, budgets, accounts, loaded>>
            ELSE IF ~b.res.ok
            THEN /\ result' = b.res
                 /\ stdout' = t.out \o b.out
                 /\ pc' = "failed"
                 /\ UNCHANGED <<transactions, budgets, accounts, loaded>>
            ELSE IF ~a.res.ok
            THEN /\ result' = a.res
                 /\ stdout' = t.out \o b.out \o a.out
                 /\ pc' = "failed"
                 /\ UNCHANGED <<transactions, budgets, accounts, loaded>>
            ELSE /\ result' = Ok(<<>>)
                 /\ stdout' = t.out \o b.out \o a.out
                 /\ pc' = "ready"
                 /\ transactions' = t.res.val
                 /\ budgets' = b.res.val
                 /\ accounts' = a.res.val
                 /\ loaded' = [transactions |-> t.res.val, budgets |-> b.res.val,
                               accounts |-> a.res.val]
  /\ UNCHANGED files

\* the query that keeps the filtered list as the analyzer's transactions
GetSpendingByCategoryKeepsFiltered ==
  /\ pc = "ready"
  /\ \E start_date \in QueryDates, end_date \in QueryDates :
       /\ call' = [op |-> "get_spending_by_category", args |-> <<start_date, end_date>>]
       /\ result' = Ok(get_spending_by_category(transactions, start_date, end_date))
       /\ transactions' = SelectSeq(transactions, LAMBDA t : InRange(t, start_date, end_date))
  /\ stdout' = <<>>
  /\ UNCHANGED <<files, budgets, accounts, loaded, pc>>

GetSpendingByCategory ==
  /\ pc = "ready"
  /\ \E start_date \in QueryDates, end_date \in QueryDates :
       /\ call' = [op |-> "get_spending_by_category", args |-> <<start_date, end_date>>]
       /\ result' = Ok(get_spending_by_category(transactions, start_date, end_date))
  /\ stdout' = <<>>
  /\ UNCHANGED <<files, transactions, budgets, accounts, loaded, pc>>

GetBudgetStatus ==
  /\ pc = "ready"
  /\ \E month \in Months, year \in Years :
       /\ call' = [op |-> "get_budget_status", args |-> <<month, year>>]
       /\ result' = get_budget_status(transactions, budgets, month, year)
  /\ stdout' = <<>>
  /\ UNCHANGED <<files, transactions, budgets, accounts, loaded, pc>>

GetNetWorth ==
  /\ pc = "ready"
  /\ call' = [op |-> "get_net_worth", args |-> <<>>]
  /\ result' = Ok(get_net_worth(accounts))
  /\ stdout' = <<>>
  /\ UNCHANGED <<files, transactions, budgets, accounts, loaded, pc>>

CheckBudgetAlerts ==
  /\ pc = "ready"
  /\ \E month \in Months, year \in Years :
       /\ call' = [op |-> "check_budget_alerts", args |-> <<month, year>>]
       /\ result' = check_budget_alerts(transactions, budgets, month, year)
  /\ stdout' = <<>>
  /\ UNCHANGED <<files, transactions, budgets, accounts, loaded, pc>>

\* ---- the spending query over every transactions file
InitSpending == InitWith({Directory(t, NoFile, NoFile) : t \in FilesOf(TxHeader, TxRows, MaxTx)})

NextSpending == FinanceAnalyzerInit \/ GetSpendingByCategory

SpecSpending == InitSpending /\ [][NextSpending]_vars

\* ---- budget status and alerts over every transactions and budgets file
StatusTxRows ==
  {<<DateText(d[1], d[2], d[3]), DecimalText(5000), Text(c), Text("memo")>> :
     d \in {<<2023, 1, 31>>, <<2023, 2, 1>>, <<2024, 1, 1>>}, c \in Categories}

StatusBudgetRows ==
  {<<Text("Food"), DecimalText(5000)>>,
   <<Text("Food"), DecimalText(3000)>>,
   <<Text("Fun"), DecimalText(3000)>>}

InitBudget ==
  InitWith({Directory(t, b, NoFile) : t \in FilesOf(TxHeader, StatusTxRows, MaxTx),
                                      b \in FilesOf(BudgetHeader, StatusBudgetRows, MaxBudgets)})

NextBudget == FinanceAnalyzerInit \/ GetBudgetStatus \/ CheckBudgetAlerts

SpecBudget == InitBudget /\ [][NextBudget]_vars

\* ---- net worth over every accounts file
InitNetWorth ==
  InitWith({Directory(NoFile, NoFile, a) : a \in FilesOf(AccountHeader, AccountRows, MaxAccounts)})

NextNetWorth == FinanceAnalyzerInit \/ GetNetWorth

SpecNetWorth == InitNetWorth /\ [][NextNetWorth]_vars

\* ---- the reader over files with missing columns, short rows and bad cells
MixedTxRows ==
  {<<DateText(2023, 1, 31), DecimalText(5000), Text("Food"), Text("memo")>>,
   <<DateText(2023, 2, 30), DecimalText(5000), Text("Food"), Text("memo")>>,
   <<DateText(2023, 1, 31), Text("abc"), Text("Food"), Text("memo")>>,
   <<DateText(2023, 1, 31)>>}

MixedBudgetRows == {<<Text("Food"), DecimalText(5000)>>, <<Text("Food"), Text("abc")>>}

MixedAccountRows ==
  {<<Text("Checking"), DecimalText(150050), Text("Bank")>>,
   <<Text("Checking"), Text("abc"), Text("Bank")>>}

TxHeaders == {TxHeader, <<"amount", "category", "description">>, <<"date", "amount", "category">>}

BudgetHeaders == {BudgetHeader, <<"monthly_limit">>}

AccountHeaders == {AccountHeader, <<"balance", "account_type">>}

MixedFiles(headers, rows) ==
  {NoFile} \cup {CsvFile(h, r) : h \in headers, r \in SeqsUpTo(rows, MaxRows)}

InitReader ==
  InitWith({Directory(t, b, a) : t \in MixedFiles(TxHeaders, MixedTxRows),
                                 b \in MixedFiles(BudgetHeaders, MixedBudgetRows),
                                 a \in MixedFiles(AccountHeaders, MixedAccountRows)})

NextReader == LoadTransactions \/ LoadBudgets \/ LoadAccounts \/ FinanceAnalyzerInit

SpecReader == InitReader /\ [][NextReader]_vars

\* ---- the whole program over the files of the test suite, cut at any row
SampleTransactions ==
  <<<<DateText(2023, 1, 1), DecimalText(5000), Text("Food"), Text("Groceries")>>,
    <<DateText(2023, 1, 5), DecimalText(2000), Text("Transport"), Text("Bus fare")>>,
    <<DateText(2023, 1, 10), DecimalText(10000), Text("Utilities"), Text("Electricity bill")>>,
    <<DateText(2023, 2, 1), DecimalText(3000), Text("Food"), Text("Restaurant")>>,
    <<DateText(2023, 2, 15), DecimalText(7500), Text("Entertainment"), Text("Movie tickets")>>>>

SampleBudgets ==
  <<<<Text("Food"), DecimalText(10000)>>,
    <<Text("Transport"), DecimalText(5000)>>,
    <<Text("Utilities"), DecimalText(12000)>>,
    <<Text("Entertainment"), DecimalText(6000)>>>>

SampleAccounts ==
  <<<<Text("Checking"), DecimalText(150050), Text("Bank")>>,
    <<Text("Savings"), DecimalText(500000), Text("Bank")>>,
    <<Text("Credit Card"), DecimalText(-20000), Text("Credit")>>>>

Prefixes(header, rows) ==
  {NoFile} \cup {CsvFile(header, SubSeq(rows, 1, n)) : n \in 0..Len(rows)}

Init ==
  InitWith({Directory(t, b, a) : t \in Prefixes(TxHeader, SampleTransactions),
                                 b \in Prefixes(BudgetHeader, SampleBudgets),
                                 a \in Prefixes(AccountHeader, SampleAccounts)})

Next ==
  \/ LoadTransactions
  \/ LoadBudgets
  \/ LoadAccounts
  \/ FinanceAnalyzerInit
  \/ GetSpendingByCategory
  \/ GetBudgetStatus
  \/ GetNetWorth
  \/ CheckBudgetAlerts

Spec == Init /\ [][Next]_vars

\* ------------------------------------------------------------ properties
\* Sums, date order and selections as the properties state them, written
\* without the operators of the program above.
RECURSIVE SumOver(_, _)
SumOver(f, S) ==
  IF S = {} THEN 0
  ELSE LET i == CHOOSE j \in S : TRUE IN f[i] + SumOver(f, S \ {i})

Ord(d) == d[1] * 10000 + d[2] * 100 + d[3]

TxAmounts == [i \in 1..Len(transactions) |-> transactions[i].amount]

\* the transactions of category c dated from lo to hi, both included
TxIn(c, lo, hi) ==
  {i \in 1..Len(transactions) :
     /\ transactions[i].category = c
     /\ lo <= Ord(transactions[i].date)
     /\ Ord(transactions[i].date) <= hi}

KeySet(d) == {d[i].key : i \in 1..Len(d)}

UniqueKeys(d) == \A i, j \in 1..Len(d) : d[i].key = d[j].key => i = j

Called(op) == call.op = op

\* C1: get_spending_by_category(start, end) returns a mapping whose keys are
\* exactly the categories with a transaction dated in [start, end], both ends
\* included, each mapped to the sum of the amounts of those transactions; a
\* category without one is absent, and start > end gives the empty mapping.
C1_SpendingByCategory ==
  Called("get_spending_by_category") =>
    LET lo == Ord(call.args[1])
        hi == Ord(call.args[2])
        all == {transactions[i].category : i \in 1..Len(transactions)}
    IN  /\ result.ok
        /\ UniqueKeys(result.val)
        /\ KeySet(result.val) = {c \in all : TxIn(c, lo, hi) # {}}
        /\ \A i \in 1..Len(result.val) :
             result.val[i].val = SumOver(TxAmounts, TxIn(result.val[i].key, lo, hi))
        /\ (lo > hi => result.val = <<>>)

\* two transactions of one category, one dated on start and one on end, are
\* both summed
C1_Witness ==
  /\ Called("get_spending_by_category")
  /\ Len(transactions) = 2
  /\ transactions[1].category = transactions[2].category
  /\ transactions[1].date = call.args[1]
  /\ transactions[2].date = call.args[2]
  /\ call.args[1] # call.args[2]
  /\ result.val = <<[key |-> transactions[1].category,
                     val |-> transactions[1].amount + transactions[2].amount]>>

\* the arguments of the last budget call
Month == call.args[1]

Year == call.args[2]

FirstOfMonth == Year * 10000 + Month * 100 + 1

FirstOfNextMonth == IF Month = 12 THEN (Year + 1) * 10000 + 101 ELSE Year * 10000 + (Month + 1) * 100 + 1

\* the transactions of category c dated inside the month of the last call
TxInMonth(c) ==
  {i \in 1..Len(transactions) :
     /\ transactions[i].category = c
     /\ transactions[i].date[1] = Year
     /\ transactions[i].date[2] = Month}

\* C2: for a month in 1..12 the 'actual' get_budget_status reports for a
\* budgeted category is the sum of the amounts of exactly the transactions of
\* that category dated inside that calendar month; a transaction dated on the
\* first day of the following month contributes nothing.
C2_ActualIsCalendarMonth ==
  (Called("get_budget_status") /\ Month \in 1..12 /\ result.ok) =>
    \A i \in 1..Len(result.val) :
      result.val[i].val.actual = SumOver(TxAmounts, TxInMonth(result.val[i].key))

C4_AlertsAreStrictOverspends ==
  (Called("check_budget_alerts") /\ result.ok) =>
    LET status == get_budget_status(transactions, budgets, Month, Year).val
        over == SelectSeq(status, LAMBDA it : it.val.actual > it.val.budget)
    IN  /\ Len(result.val) = Len(over)
        /\ \A i \in 1..Len(over) :
             /\ result.val[i].category = over[i].key
             /\ result.val[i].overspend = over[i].val.actual - over[i].val.budget
             /\ result.val[i].overspend > 0
             /\ result.val[i].budget = over[i].val.budget
             /\ result.val[i].actual = over[i].val.actual
        /\ (status = <<>> => result.val = <<>>)

\* one category over its budget is alerted after one that spent exactly its
\* budget and is not
C4_Witness ==
  /\ Called("check_budget_alerts")
  /\ result.ok
  /\ Len(result.val) = 1
  /\ LET status == get_budget_status(transactions, budgets, Month, Year).val
     IN  /\ Len(status) = 2
         /\ status[1].val.actual = status[1].val.budget
         /\ status[1].val.actual > 0
         /\ status[2].key = result.val[1].category

\* C5: get_budget_status and check_budget_alerts fail for every month outside
\* 1..12 and never fail for a month in 1..12, whatever the snapshot.
C5_FailsExactlyOnBadMonth ==
  (Called("get_budget_status") \/ Called("check_budget_alerts")) =>
    (result.ok <=> Month \in 1..12)

\* C6: get_net_worth returns the signed sum of all account balances, 0 when
\* there is no account, and never fails.
C6_NetWorthIsSignedSum ==
  Called("get_net_worth") =>
    /\ result.ok
    /\ result.val = SumOver([i \in 1..Len(accounts) |-> accounts[i].balance], 1..Len(accounts))
    /\ (accounts = <<>> => result.val = 0)

\* a negative balance takes the total below the sum of the positive ones
C6_Witness ==
  /\ Called("get_net_worth")
  /\ \E i, j \in 1..Len(accounts) : accounts[i].balance < 0 /\ accounts[j].balance > 0
  /\ \E i \in 1..Len(accounts) : result.val < accounts[i].balance

\* what a call with the arguments of the last one returns on snapshot s
Answer(s) ==
  CASE Called("get_spending_by_category") ->
         Ok(get_spending_by_category(s.transactions, call.args[1], call.args[2]))
    [] Called("get_budget_status") ->
         get_budget_status(s.transactions, s.budgets, call.args[1], call.args[2])
    [] Called("check_budget_alerts") ->
         check_budget_alerts(s.transactions, s.budgets, call.args[1], call.args[2])
    [] Called("get_net_worth") -> Ok(get_net_worth(s.accounts))
    [] OTHER -> result

\* C7: after any sequence of queries the analyzer's transactions, budgets and
\* accounts are what was loaded at construction, and every query returns what
\* the same query returns on the snapshot as it was loaded.
C7_SnapshotNeverChanges ==
  pc = "ready" =>
    /\ Snapshot = loaded
    /\ loaded.transactions = load_transactions(files).res.val
    /\ loaded.budgets = load_budgets(files).res.val
    /\ loaded.accounts = load_accounts(files).res.val
    /\ result = Answer(loaded)

\* the net worth of the three sample accounts, asked of an analyzer that
\* holds every sample record
C7_Witness ==
  /\ pc = "ready"
  /\ Called("get_net_worth")
  /\ Len(transactions) = 5
  /\ Len(budgets) = 4
  /\ Len(accounts) = 3
  /\ result = Ok(630050)

Absent(filename) == ~files[filename].exists

\* C8: a load whose file is absent returns an empty sequence and prints a
\* warning instead of raising, and an analyzer built over a directory with no
\* file is built without error and holds three empty collections.
C8_MissingFileIsEmpty ==
  /\ (Called("load_transactions") /\ Absent("transactions.csv")) =>
       (result = Ok(<<>>) /\ stdout = <<Warning("transactions.csv")>>)
  /\ (Called("load_budgets") /\ Absent("budgets.csv")) =>
       (result = Ok(<<>>) /\ stdout = <<Warning("budgets.csv")>>)
  /\ (Called("load_accounts") /\ Absent("accounts.csv")) =>
       (result = Ok(<<>>) /\ stdout = <<Warning("accounts.csv")>>)
  /\ (Called("FinanceAnalyzer") /\ Absent("transactions.csv") /\ Absent("budgets.csv")
        /\ Absent("accounts.csv")) =>
       /\ pc = "ready"
       /\ result.ok
       /\ Snapshot = NoSnapshot
       /\ stdout = <<Warning("transactions.csv"), Warning("budgets.csv"),
                     Warning("accounts.csv")>>

\* the analyzer built over the directory with no file
C8_Witness ==
  /\ Called("FinanceAnalyzer")
  /\ Absent("transactions.csv")
  /\ Absent("budgets.csv")
  /\ Absent("accounts.csv")
  /\ pc = "ready"
  /\ Len(stdout) = 3

\* a record with every required column present and every cell parsable
IsDate(cell) ==
  /\ cell.k = "date"
  /\ cell.n[1] \in 1..9999
  /\ cell.n[2] \in 1..12
  /\ cell.n[3] \in 1..DaysInMonth(cell.n[1], cell.n[2])

Has(row, names) == names \subseteq DOMAIN row

WellFormedTransaction(row) ==
  /\ Has(row, {"date", "amount", "category", "description"})
  /\ IsDate(row["date"])
  /\ row["amount"].k = "decimal"
  /\ row["category"].k = "text"
  /\ row["description"].k = "text"

WellFormedBudget(row) ==
  /\ Has(row, {"category", "monthly_limit"})
  /\ row["category"].k = "text"
  /\ row["monthly_limit"].k = "decimal"

WellFormedAccount(row) ==
  /\ Has(row, {"name", "balance", "account_type"})
  /\ row["name"].k = "text"
  /\ row["balance"].k = "decimal"
  /\ row["account_type"].k = "text"

ExpectedTransactions ==
  LET good == SelectSeq(DictReader(files["transactions.csv"]), WellFormedTransaction)
  IN  [i \in 1..Len(good) |->
         Transaction(good[i]["date"].n, good[i]["amount"].n[1],
                     good[i]["category"].s, good[i]["description"].s)]

ExpectedBudgets ==
  LET good == SelectSeq(DictReader(files["budgets.csv"]), WellFormedBudget)
  IN  [i \in 1..Len(good) |-> Budget(good[i]["category"].s, good[i]["monthly_limit"].n[1])]

ExpectedAccounts ==
  LET good == SelectSeq(DictReader(files["accounts.csv"]), WellFormedAccount)
  IN  [i \in 1..Len(good) |->
         Account(good[i]["name"].s, good[i]["balance"].n[1], good[i]["account_type"].s)]

\* C9: a load over a file that mixes well-formed records with records that
\* miss a required field or hold an unparsable one does not fail: it returns
\* exactly the well-formed records, in file order, and skips the others.
C9_MalformedRecordsAreSkipped ==
  /\ (Called("load_transactions") /\ ~Absent("transactions.csv")) =>
       result = Ok(ExpectedTransactions)
  /\ (Called("load_budgets") /\ ~Absent("budgets.csv")) => result = Ok(ExpectedBudgets)
  /\ (Called("load_accounts") /\ ~Absent("accounts.csv")) => result = Ok(ExpectedAccounts)

\* the budgets without the entries a later entry of the same category follows
RECURSIVE LastOnly(_)
LastOnly(bs) ==
  IF bs = <<>> THEN <<>>
  ELSE IF \E j \in 2..Len(bs) : bs[j].category = bs[1].category
       THEN LastOnly(Tail(bs))
       ELSE <<bs[1]>> \o LastOnly(Tail(bs))

ValueOf(d, k) == d[CHOOSE i \in 1..Len(d) : d[i].key = k].val

SameMapping(d, e) ==
  /\ KeySet(d) = KeySet(e)
  /\ \A k \in KeySet(d) : ValueOf(d, k) = ValueOf(e, k)

\* the last entry of budgets for category c
LastLimit(c) ==
  budgets[CHOOSE j \in 1..Len(budgets) :
            /\ budgets[j].category = c
            /\ \A l \in (j + 1)..Len(budgets) : budgets[l].category # c].monthly_limit

\* one entry per category, holding the limit of the last budget of the category
LastDuplicateWins ==
  (Called("get_budget_status") /\ result.ok) =>
    /\ UniqueKeys(result.val)
    /\ \A i \in 1..Len(result.val) :
         LET v == result.val[i].val
         IN  /\ v.budget = LastLimit(result.val[i].key)
             /\ v.remaining = LastLimit(result.val[i].key) - v.actual
    /\ SameMapping(result.val,
                   get_budget_status(transactions, LastOnly(budgets), Month, Year).val)

\* C10 as claimed: with several budgets of one category, get_budget_status
\* returns one entry for it with the limit of the last one, and the earlier
\* ones have no effect on the result or on the alerts derived from it.
C10_EarlierDuplicatesHaveNoEffect ==
  /\ LastDuplicateWins
  /\ (Called("check_budget_alerts") /\ result.ok) =>
       result.val = check_budget_alerts(transactions, LastOnly(budgets), Month, Year).val

\* C10 as amended: with several budgets of one category, get_budget_status
\* returns one entry for it with the limit of the last one; the earlier ones
\* change no entry of the result and no alert, but the category stands where
\* its first budget stood, so the alerts may come in another order.
C10_LastDuplicateWins ==
  /\ LastDuplicateWins
  /\ (Called("check_budget_alerts") /\ result.ok) =>
       LET other == check_budget_alerts(transactions, LastOnly(budgets), Month, Year).val
       IN  /\ Range(result.val) = Range(other)
           /\ Len(result.val) = Len(other)

\* two alerts whose order the earlier budget of a category decides
C10_Witness ==
  /\ Called("check_budget_alerts")
  /\ result.ok
  /\ Len(result.val) = 2
  /\ \E i, j \in 1..Len(budgets) :
       /\ i < j
       /\ budgets[i].category = budgets[j].category
       /\ budgets[i].monthly_limit # budgets[j].monthly_limit
  /\ result.val # check_budget_alerts(transactions, LastOnly(budgets), Month, Year).val

====
